---- MODULE Spec2Model ----
(***************************************************************************)
(* ROdict (src/_private/collectionsext.py): a mapping with protected       *)
(* (read-only) items, driven by the '_' / '__' prefix of the raw key.      *)
(*                                                                         *)
(* A str is a sequence of one-character strings, so that startswith('_')   *)
(* and key[1:] are computed on the characters.  A Python dict is the       *)
(* sequence of its <<key, value>> pairs in insertion order.  A Python      *)
(* value is a record [t |-> type, v |-> contents, id |-> identity]: two    *)
(* references name the same object exactly when their identities are      *)
(* equal, and only mutable objects (lists) have one that matters.         *)
(***************************************************************************)
EXTENDS Integers, Sequences, FiniteSets, TLC

VARIABLES _dict, _protected, constructed, last

\* a second ROdict, made from the first one (NoTwin before that)
VARIABLES twin

\* threads calling into one ROdict: where each thread is in its call, who
\* holds the caller's lock, and whether the callers use a lock at all
VARIABLES pc, lock, locking

\* TempfilePath (src/mypythonlib/_private/pathlibext.py): the two class-level
\* sets, the files on disk, the live objects and the call just made
VARIABLES _files, _preserved, disk, objs, tlast

rodictvars == <<_dict, _protected, constructed, last, twin>>
threadvars == <<pc, lock, locking>>
tmpvars == <<_files, _preserved, disk, objs, tlast>>
vars == <<rodictvars, threadvars, tmpvars>>

-----------------------------------------------------------------------------
(* Bounds of the model *)

\* most positional arguments (sources) of a construction
MaxArgs == 2

-----------------------------------------------------------------------------
(* Keys *)

Chars == {"_", "a", "b"}
\* the raw keys a caller passes to get/set/delete
StrKeys ==
    {<<"a">>, <<"_", "a">>, <<"_", "_", "a">>, <<"_", "_", "_", "a">>,
     <<"b">>, <<"_", "b">>, <<"_", "_", "b">>}
\* a hashable key that is not a str, such as 1
NonStrKey == <<"int">>
RawKeys == StrKeys \cup {NonStrKey}
\* the raw keys of construction arguments
InitStrKeys == {<<"a">>, <<"_", "a">>, <<"_", "_", "a">>, <<"_", "_", "_", "a">>}
InitKeys == InitStrKeys \cup {NonStrKey}

isinstance_str(key) == \A i \in 1..Len(key) : key[i] \in Chars
startswith_(key) == Len(key) > 0 /\ key[1] = "_"

-----------------------------------------------------------------------------
(* Values *)

\* identities: none kept (immutable values), the object the caller built
\* and still holds, an object made during the call, the object stored in the
\* dict under key k
NoId == <<>>
CallerObj == <<"caller">>
NewObj == <<"new">>
StoredAt(k) == <<"at">> \o k

Int1 == [t |-> "int", v |-> 1, id |-> NoId]
\* a list: it has a callable copy()
ListV == [t |-> "list", v |-> 0, id |-> CallerObj]
\* an object whose attribute 'copy' is not callable
NonCallable == [t |-> "obj", v |-> 0, id |-> NoId]
None == [t |-> "NoneType", v |-> 0, id |-> NoId]

Vals == {Int1, ListV, NonCallable}

hasattr_copy(val) == val.t \in {"list", "obj"}
callable_copy(val) == val.t = "list"
\* list.copy(): a new list with the same contents
list_copy(val) == [t |-> "list", v |-> val.v, id |-> NewObj]

-----------------------------------------------------------------------------
(* Errors raised *)

NoErr == "ok"
WrongKeyType == "TypeError: Wrong key. Only string keys are supported."
TypeKind == "TypeError: Unsupported type of the argument"
KeyNotFound == "KeyError: Entry doesn't exist."
ReadOnly == "KeyError: Entry is read-only."
AdditionNotAllowed == "TypeError: Adding new items is not allowed"
DeletionNotAllowed == "TypeError: Deletion is not allowed"

-----------------------------------------------------------------------------
(* The builtin dict *)

dict_keys(d) == [i \in 1..Len(d) |-> d[i][1]]
dict_keyset(d) == {d[i][1] : i \in 1..Len(d)}
dict_contains(d, k) == \E i \in 1..Len(d) : d[i][1] = k
\* d[k]: the object stored under k itself, not a copy of it
dict_getitem(d, k) ==
    LET val == d[CHOOSE i \in 1..Len(d) : d[i][1] = k][2]
    IN  IF val.t = "list" THEN [val EXCEPT !.id = StoredAt(k)] ELSE val
\* d[k] = v: an existing key keeps its position, a new key goes last
\* mutant: an assignment to a present key moves it to the end
dict_setitem_moves(d, k, v) ==
    Append(SelectSeq(d, LAMBDA e : e[1] # k), <<k, v>>)

dict_setitem(d, k, v) ==
    IF dict_contains(d, k)
    THEN [i \in 1..Len(d) |-> IF d[i][1] = k THEN <<k, v>> ELSE d[i]]
    ELSE Append(d, <<k, v>>)
dict_delitem(d, k) == SelectSeq(d, LAMBDA e : e[1] # k)
RECURSIVE dict_update(_, _)
dict_update(d, other) ==
    IF other = <<>> THEN d
    ELSE dict_update(dict_setitem(d, Head(other)[1], Head(other)[2]), Tail(other))

-----------------------------------------------------------------------------
(* ROdict *)

\* what a method call leaves behind: the instance, the exception raised (or
\* NoErr) and the value returned
Return(self, ret) == [self |-> self, err |-> NoErr, ret |-> ret]
Raise(self, err) == [self |-> self, err |-> err, ret |-> None]

\* mutant: a third underscore is stripped too
_test_under_third(key) ==
    IF ~isinstance_str(key)
    THEN [err |-> WrongKeyType, under |-> FALSE, key |-> key, dbl |-> FALSE]
    ELSE IF startswith_(key)
         THEN IF startswith_(Tail(key))
              THEN IF startswith_(Tail(Tail(key)))
                   THEN [err |-> NoErr, under |-> TRUE, key |-> Tail(Tail(Tail(key))), dbl |-> TRUE]
                   ELSE [err |-> NoErr, under |-> TRUE, key |-> Tail(Tail(key)), dbl |-> TRUE]
              ELSE [err |-> NoErr, under |-> TRUE, key |-> Tail(key), dbl |-> FALSE]
         ELSE [err |-> NoErr, under |-> FALSE, key |-> key, dbl |-> FALSE]

\* mutant: the second underscore is not looked at
_test_under_single(key) ==
    IF ~isinstance_str(key)
    THEN [err |-> WrongKeyType, under |-> FALSE, key |-> key, dbl |-> FALSE]
    ELSE IF startswith_(key)
         THEN [err |-> NoErr, under |-> TRUE, key |-> Tail(key), dbl |-> FALSE]
         ELSE [err |-> NoErr, under |-> FALSE, key |-> key, dbl |-> FALSE]

_test_under(key) ==
    IF ~isinstance_str(key)
    THEN [err |-> WrongKeyType, under |-> FALSE, key |-> key, dbl |-> FALSE]
    ELSE IF startswith_(key)
         THEN IF startswith_(Tail(key))
              THEN [err |-> NoErr, under |-> TRUE, key |-> Tail(Tail(key)), dbl |-> TRUE]
              ELSE [err |-> NoErr, under |-> TRUE, key |-> Tail(key), dbl |-> FALSE]
         ELSE [err |-> NoErr, under |-> FALSE, key |-> key, dbl |-> FALSE]

\* mutant: the value is stored and returned as it is
_val_copy_same(val) == val

\* a value whose 'copy' attribute is not callable falls out of the inner if
\* without a return: the call yields None
_val_copy(val) ==
    IF hasattr_copy(val)
    THEN IF callable_copy(val) THEN list_copy(val) ELSE None
    ELSE val

\* mutant: a single underscore leaves the protection as it is
_item_change_existing_as_under_no_discard(self, key, val, dbl) ==
    LET d == dict_setitem(self._dict, key, _val_copy(val))
    IN  Return([id |-> self.id, _dict |-> d,
                _protected |-> IF dbl THEN self._protected \cup {key}
                               ELSE self._protected], None)

_item_change_existing_as_under(self, key, val, dbl) ==
    LET d == dict_setitem(self._dict, key, _val_copy(val))
    IN  Return([id |-> self.id, _dict |-> d,
                _protected |-> IF dbl THEN self._protected \cup {key}
                               ELSE self._protected \ {key}], None)

\* mutant: a new key is refused after construction, as on the normal path
_item_add_new_as_under_refused(self, key, val, dbl, init) ==
    IF init THEN _item_change_existing_as_under(self, key, val, dbl)
    ELSE Raise(self, AdditionNotAllowed)

_item_add_new_as_under(self, key, val, dbl, init) ==
    _item_change_existing_as_under(self, key, val, dbl)

\* mutant: init is not looked at
_item_add_new_as_normal_always(self, key, val, init) ==
    Return([self EXCEPT !._dict = dict_setitem(self._dict, key, _val_copy(val))], None)

_item_add_new_as_normal(self, key, val, init) ==
    IF init
    THEN Return([self EXCEPT !._dict = dict_setitem(self._dict, key, _val_copy(val))], None)
    ELSE Raise(self, AdditionNotAllowed)

\* mutant: the protection is not looked at
_item_change_existing_as_normal_unchecked(self, key, val) ==
    Return([self EXCEPT !._dict = dict_setitem(self._dict, key, _val_copy(val))], None)

\* mutant: the value is written before the protection is looked at
_item_change_existing_as_normal_write_first(self, key, val) ==
    LET written == [self EXCEPT !._dict = dict_setitem(self._dict, key, _val_copy(val))]
    IN  IF key \in self._protected THEN Raise(written, ReadOnly)
        ELSE Return(written, None)

\* mutant: a normal-mode update protects the key
_item_change_existing_as_normal_protects(self, key, val) ==
    IF key \in self._protected THEN Raise(self, ReadOnly)
    ELSE Return([self EXCEPT !._dict = dict_setitem(self._dict, key, _val_copy(val)),
                             !._protected = self._protected \cup {key}], None)

_item_change_existing_as_normal(self, key, val) ==
    IF key \in self._protected
    THEN Raise(self, ReadOnly)
    ELSE Return([self EXCEPT !._dict = dict_setitem(self._dict, key, _val_copy(val))], None)

\* mutant: the under-mode get takes the protection off
_item_get_existing_as_under_unprotects(self, key, dbl) ==
    Return([id |-> self.id, _dict |-> self._dict, _protected |-> self._protected \ {key}],
           dict_getitem(self._dict, key))

\* mutant: the under-mode get hands out a copy too
_item_get_existing_as_under_copy(self, key, dbl) ==
    Return(self, _val_copy(dict_getitem(self._dict, key)))

_item_get_existing_as_under(self, key, dbl) ==
    Return(self, dict_getitem(self._dict, key))

_item_get_existing_as_normal(self, key) ==
    Return(self, _val_copy(dict_getitem(self._dict, key)))

_item_get_missing_as_normal(self, key) ==
    Raise(self, KeyNotFound)

_item_get_missing_as_under(self, key, dbl) ==
    _item_get_missing_as_normal(self, key)

\* mutant: the key stays in _protected
_item_del_existing_as_under_keeps_flag(self, key, dbl) ==
    Return([id |-> self.id, _dict |-> dict_delitem(self._dict, key),
            _protected |-> self._protected], None)

\* mutant: a protected key is not deleted
_item_del_existing_as_under_guarded(self, key, dbl) ==
    IF key \in self._protected THEN Raise(self, ReadOnly)
    ELSE Return([id |-> self.id, _dict |-> dict_delitem(self._dict, key),
                 _protected |-> self._protected \ {key}], None)

_item_del_existing_as_under(self, key, dbl) ==
    Return([id |-> self.id, _dict |-> dict_delitem(self._dict, key),
            _protected |-> self._protected \ {key}], None)

_item_del_missing_as_normal(self, key) ==
    Raise(self, KeyNotFound)

\* mutant: an under-mode delete of a missing key passes in silence
_item_del_missing_as_under_silent(self, key, dbl) ==
    Return(self, None)

_item_del_missing_as_under(self, key, dbl) ==
    _item_del_missing_as_normal(self, key)

\* mutant: only a protected key is kept
_item_del_existing_as_normal_unprotected(self, key) ==
    IF key \in self._protected THEN Raise(self, DeletionNotAllowed)
    ELSE Return([self EXCEPT !._dict = dict_delitem(self._dict, key)], None)

\* mutant: a normal-mode delete removes the entry
_item_del_existing_as_normal_deletes(self, key) ==
    Return([self EXCEPT !._dict = dict_delitem(self._dict, key),
                        !._protected = self._protected \ {key}], None)

_item_del_existing_as_normal(self, key) ==
    Raise(self, DeletionNotAllowed)

__getitem__(self, key) ==
    LET testres == _test_under(key)
    IN  IF testres.err # NoErr THEN Raise(self, testres.err)
        ELSE IF testres.under
             THEN IF dict_contains(self._dict, testres.key)
                  THEN _item_get_existing_as_under(self, testres.key, testres.dbl)
                  ELSE _item_get_missing_as_under(self, testres.key, testres.dbl)
             ELSE IF dict_contains(self._dict, key)
                  THEN _item_get_existing_as_normal(self, key)
                  ELSE _item_get_missing_as_normal(self, key)

__setitem__(self, key, val) ==
    LET testres == _test_under(key)
    IN  IF testres.err # NoErr THEN Raise(self, testres.err)
        ELSE IF testres.under
             THEN IF dict_contains(self._dict, testres.key)
                  THEN _item_change_existing_as_under(self, testres.key, val, testres.dbl)
                  ELSE _item_add_new_as_under(self, testres.key, val, testres.dbl, FALSE)
             ELSE IF dict_contains(self._dict, key)
                  THEN _item_change_existing_as_normal(self, key, val)
                  ELSE _item_add_new_as_normal(self, key, val, FALSE)

__delitem__(self, key) ==
    LET testres == _test_under(key)
    IN  IF testres.err # NoErr THEN Raise(self, testres.err)
        ELSE IF testres.under
             THEN IF dict_contains(self._dict, testres.key)
                  THEN _item_del_existing_as_under(self, testres.key, testres.dbl)
                  ELSE _item_del_missing_as_under(self, testres.key, testres.dbl)
             ELSE IF dict_contains(self._dict, key)
                  THEN _item_del_existing_as_normal(self, key)
                  ELSE _item_del_missing_as_normal(self, key)

-----------------------------------------------------------------------------
(* Construction *)

\* the arguments of a construction: a plain dict, an ROdict, or an object
\* that is no Mapping
PlainDict(items) == [kind |-> "dict", items |-> items, prot |-> {}]
AsArg(self) == [kind |-> "ROdict", items |-> self._dict, prot |-> self._protected]
NoMapping == [kind |-> "int", items |-> <<>>, prot |-> {}]

\* mutant: every object passes for a Mapping
isinstance_Mapping_any(obj) == TRUE

isinstance_Mapping(obj) == obj.kind \in {"dict", "ROdict"}
isinstance_ROdict(obj) == obj.kind = "ROdict"

\* mutant: a source ROdict hands over its items without the '__' marks
__to_initdict_unmarked(obj) ==
    IF ~isinstance_Mapping(obj) THEN [err |-> TypeKind, d |-> <<>>]
    ELSE [err |-> NoErr, d |-> obj.items]

__to_initdict(obj) ==
    IF ~isinstance_Mapping(obj) THEN [err |-> TypeKind, d |-> <<>>]
    ELSE IF isinstance_ROdict(obj)
         THEN [err |-> NoErr,
               d |-> dict_update(
                    [i \in 1..Len(SelectSeq(obj.items, LAMBDA e : e[1] \in obj.prot)) |->
                        LET e == SelectSeq(obj.items, LAMBDA x : x[1] \in obj.prot)[i]
                        IN  <<<<"_", "_">> \o e[1], e[2]>>],
                    SelectSeq(obj.items, LAMBDA e : e[1] \notin obj.prot))]
         ELSE [err |-> NoErr, d |-> obj.items]

\* for arg in args: initdict.update(self.__to_initdict(arg))
RECURSIVE init_merge(_, _)
init_merge(initdict, args) ==
    IF args = <<>> THEN [err |-> NoErr, d |-> initdict]
    ELSE LET r == __to_initdict(Head(args))
         IN  IF r.err # NoErr THEN [err |-> r.err, d |-> initdict]
             ELSE init_merge(dict_update(initdict, r.d), Tail(args))

\* for key, val in initdict.items(): ...
RECURSIVE init_insert(_, _)
init_insert(self, items) ==
    IF items = <<>> THEN Return(self, None)
    ELSE LET key == Head(items)[1]
             val == Head(items)[2]
             testres == _test_under(key)
             r == IF testres.err # NoErr THEN Raise(self, testres.err)
                  ELSE IF testres.under
                       THEN _item_add_new_as_under(self, testres.key, val, testres.dbl, TRUE)
                       ELSE _item_add_new_as_normal(self, key, val, TRUE)
         IN  IF r.err # NoErr THEN r ELSE init_insert(r.self, Tail(items))

\* self._dict, self._protected = {}, set(): a new instance, with its identity
Empty == [_dict |-> <<>>, _protected |-> {}, id |-> NewObj]

__init__(args, kwargs) ==
    LET m == init_merge(<<>>, args)
    IN  IF m.err # NoErr THEN Raise(Empty, m.err)
        ELSE init_insert(Empty, dict_update(m.d, kwargs))

\* mutant: the instance itself is returned
copy_self(self) == Return(self, None)

copy(self) == __init__(<<AsArg(self)>>, <<>>)

-----------------------------------------------------------------------------
(* Observers *)

__iter__(self) == dict_keys(self._dict)
__len__(self) == Len(self._dict)
\* yield from self._protected: the protected keys, in the order of the set
rokeys(self) == self._protected

\* str(v) of a value, as the f-string puts it
format(val) ==
    IF val.t = "int" THEN "1"
    ELSE IF val.t = "list" THEN (IF val.v = 0 THEN "[]" ELSE "[1]")
    ELSE "None"
\* ', '.join(parts): a str is the sequence of its pieces
RECURSIVE join(_, _)
join(sep, parts) ==
    IF parts = <<>> THEN <<>>
    ELSE IF Len(parts) = 1 THEN parts[1]
    ELSE parts[1] \o <<sep>> \o join(sep, Tail(parts))
\* [f'{k}*: {v}' for k, v in items] (mark '*') or [f'{k}: {v}' ...] (no mark)
formatted(items, mark) ==
    [i \in 1..Len(items) |-> items[i][1] \o mark \o <<": ", format(items[i][2])>>]

\* mutant: the entries are listed in one pass, in the order of the dict
__str__ungrouped(self) ==
    <<"ROdict", " {">>
    \o join(", ", [i \in 1..Len(self._dict) |->
                     formatted(<<self._dict[i]>>,
                               IF self._dict[i][1] \in self._protected
                               THEN <<"*">> ELSE <<>>)[1]])
    \o <<"}">>

__str__(self) ==
    <<"ROdict", " {">>
    \o join(", ", formatted(SelectSeq(self._dict, LAMBDA e : e[1] \in self._protected), <<"*">>)
                  \o formatted(SelectSeq(self._dict, LAMBDA e : e[1] \notin self._protected), <<>>))
    \o <<"}">>

\* the builtin dict(mapping): out[key] = mapping[key] for each key of
\* mapping.keys(), the first exception ends it
RECURSIVE dict_from_mapping(_, _, _)
dict_from_mapping(self, keys, out) ==
    IF keys = <<>> THEN Return(self, [t |-> "dict", v |-> out, id |-> NewObj])
    ELSE LET r == __getitem__(self, Head(keys))
         IN  IF r.err # NoErr THEN Raise(r.self, r.err)
             ELSE dict_from_mapping(r.self, Tail(keys), dict_setitem(out, Head(keys), r.ret))

dict(self) == dict_from_mapping(self, __iter__(self), <<>>)

-----------------------------------------------------------------------------
(* The program: one ROdict and the calls made on it *)

\* the instance x the calls are made on
XId == <<"x">>
Self == [_dict |-> _dict, _protected |-> _protected, id |-> XId]

\* no second instance; and the second instance after a call on x that left x
\* as self: it shows the call exactly if it is the same object as x
NoTwin == [_dict |-> <<>>, _protected |-> {}, id |-> <<"none">>]
Seen(o, self) == IF o.id = self.id THEN self ELSE o

\* what the call found under its key: "absent", "unprotected" or "protected"
KeyState(self, key) ==
    LET testres == _test_under(key)
    IN  IF testres.err # NoErr THEN "n/a"
        ELSE IF ~dict_contains(self._dict, testres.key) THEN "absent"
        ELSE IF testres.key \in self._protected THEN "protected"
        ELSE "unprotected"

\* the call just made, what it found and its outcome
Call(op, key, val, args, kwargs, was, r) ==
    [op |-> op, key |-> key, val |-> val, args |-> args, kwargs |-> kwargs,
     was |-> was, err |-> r.err, ret |-> r.ret]

\* plain dicts given to the constructor
SrcDicts == {<<>>} \cup {<< <<k, v>> >> : k \in InitKeys, v \in Vals}
Sources == {PlainDict(items) : items \in SrcDicts} \cup {NoMapping}
ArgSeqs == UNION {[1..n -> Sources] : n \in 0..MaxArgs}
\* keyword arguments: their names are always str
Kwargs == {<<>>} \cup {<< <<k, v>> >> : k \in InitStrKeys, v \in Vals}

\* the threads of the model and their state outside a call
Threads == {"t1", "t2"}
NoThread == "none"
Idle == [at |-> "idle", raw |-> <<>>, key |-> <<>>, val |-> None, dbl |-> FALSE]
SingleThreaded == pc = [t \in Threads |-> Idle] /\ lock = NoThread /\ locking = FALSE

\* the paths of the model; no TempfilePath has been made
Paths == {"p", "q"}
NoObject == [alive |-> FALSE, asked |-> FALSE]
NoTcall == [op |-> "none", path |-> "p", val |-> "False", err |-> NoErr, ret |-> FALSE]
NoTempfiles ==
    /\ _files = {} /\ _preserved = {} /\ disk = {}
    /\ objs = [p \in Paths |-> NoObject] /\ tlast = NoTcall

\* x = ROdict(*args, **kwargs); a raising constructor produces no instance
InitWith(args, kwargs) ==
    LET r == __init__(args, kwargs)
    IN  /\ constructed = (r.err = NoErr)
        /\ _dict = IF r.err = NoErr THEN r.self._dict ELSE <<>>
        /\ _protected = IF r.err = NoErr THEN r.self._protected ELSE {}
        /\ last = Call("init", <<>>, None, args, kwargs, "n/a", r)
        /\ twin = NoTwin
        /\ SingleThreaded
        /\ NoTempfiles

Init == \E args \in ArgSeqs, kwargs \in Kwargs : InitWith(args, kwargs)

\* x[key]
GetItem(key) ==
    /\ constructed
    /\ LET r == __getitem__(Self, key)
       IN  /\ _dict' = r.self._dict
           /\ _protected' = r.self._protected
           /\ last' = Call("get", key, None, <<>>, <<>>, KeyState(Self, key), r)
           /\ twin' = Seen(twin, r.self)
    /\ UNCHANGED <<constructed, threadvars, tmpvars>>

\* x[key] = val
SetItem(key, val) ==
    /\ constructed
    /\ LET r == __setitem__(Self, key, val)
       IN  /\ _dict' = r.self._dict
           /\ _protected' = r.self._protected
           /\ last' = Call("set", key, val, <<>>, <<>>, KeyState(Self, key), r)
           /\ twin' = Seen(twin, r.self)
    /\ UNCHANGED <<constructed, threadvars, tmpvars>>

\* del x[key]
DelItem(key) ==
    /\ constructed
    /\ LET r == __delitem__(Self, key)
       IN  /\ _dict' = r.self._dict
           /\ _protected' = r.self._protected
           /\ last' = Call("del", key, None, <<>>, <<>>, KeyState(Self, key), r)
           /\ twin' = Seen(twin, r.self)
    /\ UNCHANGED <<constructed, threadvars, tmpvars>>

\* x = x.copy()
Copy ==
    /\ constructed
    /\ LET r == copy(Self)
       IN  /\ _dict' = IF r.err = NoErr THEN r.self._dict ELSE _dict
           /\ _protected' = IF r.err = NoErr THEN r.self._protected ELSE _protected
           /\ last' = Call("copy", <<>>, None, <<>>, <<>>, "n/a", r)
    /\ UNCHANGED <<constructed, twin, threadvars, tmpvars>>

\* y = ROdict(x, src): x is a source of another construction; y is returned,
\* or nothing when the constructor raises
New(src) ==
    /\ constructed
    /\ LET args == <<AsArg(Self), src>>
           r == __init__(args, <<>>)
           y == IF r.err = NoErr
                THEN [t |-> "ROdict", v |-> r.self, id |-> NewObj]
                ELSE None
       IN  last' = Call("new", <<>>, None, args, <<>>, "n/a", [r EXCEPT !.ret = y])
    /\ UNCHANGED <<_dict, _protected, constructed, twin, threadvars, tmpvars>>

\* x.dict()
ToDict ==
    /\ constructed
    /\ LET r == dict(Self)
       IN  /\ _dict' = r.self._dict
           /\ _protected' = r.self._protected
           /\ last' = Call("dict", <<>>, None, <<>>, <<>>, "n/a", r)
           /\ twin' = Seen(twin, r.self)
    /\ UNCHANGED <<constructed, threadvars, tmpvars>>

\* len(x), list(x), list(x.rokeys()), str(x)
Len_ ==
    /\ constructed
    /\ last' = Call("len", <<>>, None, <<>>, <<>>, "n/a",
                    Return(Self, [t |-> "int", v |-> __len__(Self), id |-> NoId]))
    /\ UNCHANGED <<_dict, _protected, constructed, twin, threadvars, tmpvars>>

Iter ==
    /\ constructed
    /\ last' = Call("iter", <<>>, None, <<>>, <<>>, "n/a",
                    Return(Self, [t |-> "list", v |-> __iter__(Self), id |-> NewObj]))
    /\ UNCHANGED <<_dict, _protected, constructed, twin, threadvars, tmpvars>>

Rokeys ==
    /\ constructed
    /\ last' = Call("rokeys", <<>>, None, <<>>, <<>>, "n/a",
                    Return(Self, [t |-> "set", v |-> rokeys(Self), id |-> NewObj]))
    /\ UNCHANGED <<_dict, _protected, constructed, twin, threadvars, tmpvars>>

Str ==
    /\ constructed
    /\ last' = Call("str", <<>>, None, <<>>, <<>>, "n/a",
                    Return(Self, [t |-> "str", v |-> __str__(Self), id |-> NoId]))
    /\ UNCHANGED <<_dict, _protected, constructed, twin, threadvars, tmpvars>>

\* x.copy(), the copy being dropped
CopyOf ==
    /\ constructed
    /\ LET r == copy(Self)
           y == IF r.err = NoErr
                THEN [t |-> "ROdict", v |-> r.self, id |-> r.self.id]
                ELSE None
       IN  last' = Call("copy_of", <<>>, None, <<>>, <<>>, "n/a", [r EXCEPT !.ret = y])
    /\ UNCHANGED <<_dict, _protected, constructed, twin, threadvars, tmpvars>>

Next ==
    \/ \E key \in RawKeys : GetItem(key)
    \/ \E key \in RawKeys, val \in Vals : SetItem(key, val)
    \/ \E key \in RawKeys : DelItem(key)
    \/ Copy
    \/ \E src \in Sources : New(src)
    \/ ToDict
    \/ Len_
    \/ Iter
    \/ Rokeys
    \/ Str
    \/ CopyOf

Spec == Init /\ [][Next]_vars

-----------------------------------------------------------------------------
(* The caller's own references: after a call the caller still holds the    *)
(* objects it passed in and the object the call returned, and may change a *)
(* list among them in place (append, clear, ...).                          *)

\* the list after the change: the two contents a list of the model can have
list_changed(val) == [val EXCEPT !.v = 1 - val.v]

\* the lists the caller passed to the last call
PassedLists ==
    {val \in {ListV} :
        \/ last.op = "set" /\ last.val = val
        \/ /\ last.op = "init"
           /\ \/ \E i \in 1..Len(last.args) : \E j \in 1..Len(last.args[i].items) :
                    last.args[i].items[j][2] = val
              \/ \E j \in 1..Len(last.kwargs) : last.kwargs[j][2] = val}
\* the list the last call returned
ReturnedLists == {val \in {last.ret} : last.op = "get" /\ last.err = NoErr /\ val.t = "list"}

\* the entry under key k holds the object obj itself
SameObject(k, stored, obj) ==
    /\ stored.t = "list"
    /\ \/ obj.id = StoredAt(k)
       \/ obj.id = CallerObj /\ stored.id = CallerObj

\* a change of obj in place shows through every reference to it
changed_in_place(d, obj) ==
    [i \in 1..Len(d) |->
        IF SameObject(d[i][1], d[i][2], obj)
        THEN <<d[i][1], list_changed(d[i][2])>>
        ELSE d[i]]

\* the caller changes, in place, a list it passed ("arg") or received ("ret")
Mutate(which) ==
    /\ constructed
    /\ \E obj \in IF which = "arg" THEN PassedLists ELSE ReturnedLists :
          /\ _dict' = changed_in_place(_dict, obj)
          /\ last' = [op |-> "mutate", key |-> last.key, val |-> list_changed(obj),
                      args |-> <<>>, kwargs |-> <<>>, was |-> which,
                      err |-> NoErr, ret |-> None]
    /\ UNCHANGED <<_protected, constructed, twin, threadvars, tmpvars>>

NextAlias ==
    \/ \E key \in RawKeys : GetItem(key)
    \/ \E key \in RawKeys, val \in Vals : SetItem(key, val)
    \/ \E key \in RawKeys : DelItem(key)
    \/ \E which \in {"arg", "ret"} : Mutate(which)

SpecAlias == Init /\ [][NextAlias]_vars

-----------------------------------------------------------------------------
(* Two instances: x and a second one, y, made from x by copy() or by a     *)
(* construction with x among the sources.  Both are then written to.       *)

CloneKeys == {<<"a">>, <<"_", "a">>, <<"_", "_", "a">>, <<"_", "_", "b">>}
CloneVals == {Int1, ListV}
CloneSources ==
    {PlainDict(<<>>),
     PlainDict(<< <<<<"a">>, Int1>> >>),
     PlainDict(<< <<<<"_", "_", "a">>, ListV>> >>),
     NoMapping}

\* y = x.copy()
Clone ==
    /\ constructed
    /\ LET r == copy(Self)
       IN  /\ twin' = IF r.err = NoErr THEN r.self ELSE twin
           /\ last' = Call("clone", <<>>, None, <<>>, <<>>, "n/a", [r EXCEPT !.ret = None])
    /\ UNCHANGED <<_dict, _protected, constructed, threadvars, tmpvars>>

\* y = ROdict(x, src)
Construct(src) ==
    /\ constructed
    /\ LET args == <<AsArg(Self), src>>
           r == __init__(args, <<>>)
       IN  /\ twin' = IF r.err = NoErr THEN r.self ELSE twin
           /\ last' = Call("construct", <<>>, None, args, <<>>, "n/a", [r EXCEPT !.ret = None])
    /\ UNCHANGED <<_dict, _protected, constructed, threadvars, tmpvars>>

\* y[key] = val
TwinSetItem(key, val) ==
    /\ twin # NoTwin
    /\ LET r == __setitem__(twin, key, val)
       IN  /\ twin' = r.self
           /\ _dict' = Seen(Self, r.self)._dict
           /\ _protected' = Seen(Self, r.self)._protected
           /\ last' = Call("twin_set", key, val, <<>>, <<>>, KeyState(twin, key), r)
    /\ UNCHANGED <<constructed, threadvars, tmpvars>>

\* del y[key]
TwinDelItem(key) ==
    /\ twin # NoTwin
    /\ LET r == __delitem__(twin, key)
       IN  /\ twin' = r.self
           /\ _dict' = Seen(Self, r.self)._dict
           /\ _protected' = Seen(Self, r.self)._protected
           /\ last' = Call("twin_del", key, None, <<>>, <<>>, KeyState(twin, key), r)
    /\ UNCHANGED <<constructed, threadvars, tmpvars>>

InitClone == \E src \in CloneSources : InitWith(<<src>>, <<>>)

NextClone ==
    \/ Clone
    \/ \E src \in CloneSources : Construct(src)
    \/ \E key \in CloneKeys, val \in CloneVals : SetItem(key, val)
    \/ \E key \in CloneKeys : DelItem(key)
    \/ \E key \in CloneKeys, val \in CloneVals : TwinSetItem(key, val)
    \/ \E key \in CloneKeys : TwinDelItem(key)

SpecClone == InitClone /\ [][NextClone]_vars

-----------------------------------------------------------------------------
(* Two threads on one ROdict.  An under-mode set and an under-mode delete  *)
(* are two statements each, and another thread may run between them.  With *)
(* locking, the callers wrap every call in one exclusive lock.             *)

\* the builtin KeyError of del d[k] on a missing key
BuiltinKeyError == "KeyError: key"

\* _item_change_existing_as_under, first statement
set_store(self, key, val) ==
    [self EXCEPT !._dict = dict_setitem(self._dict, key, _val_copy(val))]
\* _item_change_existing_as_under, the if statement
set_protect(self, key, dbl) ==
    [self EXCEPT !._protected = IF dbl THEN self._protected \cup {key}
                                ELSE self._protected \ {key}]
\* mutant: the delete leaves the protected set alone
del_discard_skipped(self, key) == self

\* _item_del_existing_as_under, first statement
del_discard(self, key) == [self EXCEPT !._protected = self._protected \ {key}]
\* _item_del_existing_as_under, second statement
del_remove(self, key) ==
    IF dict_contains(self._dict, key)
    THEN Return([self EXCEPT !._dict = dict_delitem(self._dict, key)], None)
    ELSE Raise(self, BuiltinKeyError)

ThreadKeys == {<<"_", "a">>, <<"_", "_", "a">>}
ThreadVals == {Int1}

MayEnter(t) == pc[t] = Idle /\ (locking => lock = NoThread)
Entered(t) == IF locking THEN t ELSE lock
Left(t) == IF locking THEN NoThread ELSE lock

\* x[key] = val entered: the key is parsed and the hook chosen
BeginSet(t, key, val) ==
    /\ constructed /\ MayEnter(t)
    /\ LET testres == _test_under(key)
       IN  /\ testres.under
           /\ pc' = [pc EXCEPT ![t] = [at |-> "store", raw |-> key, key |-> testres.key,
                                       val |-> val, dbl |-> testres.dbl]]
    /\ lock' = Entered(t)
    /\ UNCHANGED <<rodictvars, locking, tmpvars>>

\* self._dict[key] = self._val_copy(val)
Store(t) ==
    /\ pc[t].at = "store"
    /\ _dict' = set_store(Self, pc[t].key, pc[t].val)._dict
    /\ pc' = [pc EXCEPT ![t].at = "protect"]
    /\ UNCHANGED <<_protected, constructed, twin, last, lock, locking, tmpvars>>

\* self._protected.add(key) or .discard(key); the call returns
Protect(t) ==
    /\ pc[t].at = "protect"
    /\ _protected' = set_protect(Self, pc[t].key, pc[t].dbl)._protected
    /\ last' = Call("set", pc[t].raw, pc[t].val, <<>>, <<>>, "n/a", Return(Self, None))
    /\ pc' = [pc EXCEPT ![t] = Idle]
    /\ lock' = Left(t)
    /\ UNCHANGED <<_dict, constructed, twin, locking, tmpvars>>

\* del x[key] entered: the key is parsed and looked up; a missing key
\* raises at once
BeginDel(t, key) ==
    /\ constructed /\ MayEnter(t)
    /\ LET testres == _test_under(key)
       IN  /\ testres.under
           /\ IF dict_contains(_dict, testres.key)
              THEN /\ pc' = [pc EXCEPT ![t] = [at |-> "discard", raw |-> key,
                                               key |-> testres.key, val |-> None,
                                               dbl |-> testres.dbl]]
                   /\ lock' = Entered(t)
                   /\ UNCHANGED last
              ELSE /\ last' = Call("del", key, None, <<>>, <<>>, "n/a",
                                   _item_del_missing_as_under(Self, testres.key, testres.dbl))
                   /\ UNCHANGED <<pc, lock>>
    /\ UNCHANGED <<_dict, _protected, constructed, twin, locking, tmpvars>>

\* self._protected.discard(key)
Discard(t) ==
    /\ pc[t].at = "discard"
    /\ _protected' = del_discard(Self, pc[t].key)._protected
    /\ pc' = [pc EXCEPT ![t].at = "remove"]
    /\ UNCHANGED <<_dict, constructed, twin, last, lock, locking, tmpvars>>

\* del self._dict[key]; the call returns, or raises when another thread has
\* removed the key meanwhile
Remove(t) ==
    /\ pc[t].at = "remove"
    /\ LET r == del_remove(Self, pc[t].key)
       IN  /\ _dict' = r.self._dict
           /\ last' = Call("del", pc[t].raw, None, <<>>, <<>>, "n/a", r)
    /\ pc' = [pc EXCEPT ![t] = Idle]
    /\ lock' = Left(t)
    /\ UNCHANGED <<_protected, constructed, twin, locking, tmpvars>>

\* x = ROdict(), shared by the threads, whose callers all lock or all do not
InitThreads ==
    /\ _dict = <<>> /\ _protected = {} /\ constructed = TRUE
    /\ last = Call("init", <<>>, None, <<>>, <<>>, "n/a", __init__(<<>>, <<>>))
    /\ twin = NoTwin
    /\ pc = [t \in Threads |-> Idle] /\ lock = NoThread
    /\ locking \in BOOLEAN
    /\ NoTempfiles

NextThreads ==
    \E t \in Threads :
        \/ \E key \in ThreadKeys, val \in ThreadVals : BeginSet(t, key, val)
        \/ Store(t)
        \/ Protect(t)
        \/ \E key \in ThreadKeys : BeginDel(t, key)
        \/ Discard(t)
        \/ Remove(t)

SpecThreads == InitThreads /\ [][NextThreads]_vars

-----------------------------------------------------------------------------
(* TempfilePath (src/mypythonlib/_private/pathlibext.py): names of         *)
(* temporary files, removed with their object unless preserved.  The       *)
(* members of the class-level sets are Python objects: a str and a path    *)
(* object of the same text are different members.                          *)

OSErrorExists == "OSError: Can't create tempfile. File already exists."
ValueErrorUsed == "ValueError: Path is already used by different tempfile."
TypeErrorBool == "TypeError: Must be bool value"
\* the values assigned to the property: True, False, and one that is neither
PyTrue == "True"
PyFalse == "False"
NotBool == "1"

\* str(self), and self, of the TempfilePath of path p
str(p) == [t |-> "str", path |-> p]
obj(p) == [t |-> "TempfilePath", path |-> p]

Cls == [_files |-> _files, _preserved |-> _preserved, disk |-> disk]

\* TempfilePath(p): __new__ checks the path (the file must not exist, the
\* name must be unused; touch() and unlink() leave the disk as it was),
\* __init__ registers it
TempfilePath(cls, p) ==
    IF p \in cls.disk THEN Raise(cls, OSErrorExists)
    ELSE IF str(p) \in cls._files THEN Raise(cls, ValueErrorUsed)
    ELSE Return([cls EXCEPT !._files = cls._files \cup {str(p)}], None)

__del__(cls, p) ==
    IF str(p) \in cls._files /\ str(p) \notin cls._preserved
    THEN Return([cls EXCEPT !.disk = cls.disk \ {p},
                            !._files = cls._files \ {str(p)}], None)
    ELSE Return(cls, None)

cleanup(cls) ==
    Return([cls EXCEPT !.disk = cls.disk \ {p \in Paths : /\ str(p) \in cls._files
                                                          /\ str(p) \notin cls._preserved}],
           None)

\* the property: return str(self) in self._preserved
preserved(cls, p) == Return(cls, str(p) \in cls._preserved)

\* the setter: self._preserved.add(self) / .discard(self)
preserved_setter(cls, p, val) ==
    IF val = PyTrue THEN Return([cls EXCEPT !._preserved = cls._preserved \cup {obj(p)}], None)
    ELSE IF val = PyFalse THEN Return([cls EXCEPT !._preserved = cls._preserved \ {obj(p)}], None)
    ELSE Raise(cls, TypeErrorBool)

Tcall(op, p, val, r) == [op |-> op, path |-> p, val |-> val, err |-> r.err, ret |-> r.ret]

\* t = TempfilePath(p); a raising constructor gives no object
Create(p) ==
    /\ LET r == TempfilePath(Cls, p)
       IN  /\ _files' = r.self._files
           /\ objs' = IF r.err = NoErr
                      THEN [objs EXCEPT ![p] = [alive |-> TRUE, asked |-> FALSE]]
                      ELSE objs
           /\ tlast' = Tcall("new", p, PyFalse, [r EXCEPT !.ret = FALSE])
    /\ UNCHANGED <<_preserved, disk, rodictvars, threadvars>>

\* the program the name was passed to writes the file
Write(p) ==
    /\ objs[p].alive /\ p \notin disk
    /\ disk' = disk \cup {p}
    /\ tlast' = [op |-> "write", path |-> p, val |-> PyFalse, err |-> NoErr, ret |-> FALSE]
    /\ UNCHANGED <<_files, _preserved, objs, rodictvars, threadvars>>

\* t.preserved = val
SetPreserved(p, val) ==
    /\ objs[p].alive
    /\ LET r == preserved_setter(Cls, p, val)
       IN  /\ _preserved' = r.self._preserved
           /\ objs' = IF r.err = NoErr THEN [objs EXCEPT ![p].asked = (val = PyTrue)] ELSE objs
           /\ tlast' = Tcall("set_preserved", p, val, [r EXCEPT !.ret = FALSE])
    /\ UNCHANGED <<_files, disk, rodictvars, threadvars>>

\* t.preserved
GetPreserved(p) ==
    /\ objs[p].alive
    /\ tlast' = Tcall("get_preserved", p, PyFalse, preserved(Cls, p))
    /\ UNCHANGED <<_files, _preserved, disk, objs, rodictvars, threadvars>>

\* the last reference to t is dropped and __del__ runs; a path object kept
\* in _preserved is still referenced
Finalize(p) ==
    /\ objs[p].alive /\ obj(p) \notin _preserved
    /\ LET r == __del__(Cls, p)
       IN  /\ _files' = r.self._files
           /\ disk' = r.self.disk
           /\ tlast' = Tcall("del", p, PyFalse, [r EXCEPT !.ret = FALSE])
    /\ objs' = [objs EXCEPT ![p] = NoObject]
    /\ UNCHANGED <<_preserved, rodictvars, threadvars>>

\* TempfilePath.cleanup()
Cleanup ==
    /\ LET r == cleanup(Cls)
       IN  /\ disk' = r.self.disk
           /\ tlast' = Tcall("cleanup", "p", PyFalse, [r EXCEPT !.ret = FALSE])
    /\ UNCHANGED <<_files, _preserved, objs, rodictvars, threadvars>>

\* no TempfilePath yet; the ROdict part of the state is not used
InitTemp ==
    /\ NoTempfiles
    /\ _dict = <<>> /\ _protected = {} /\ constructed = FALSE
    /\ last = Call("none", <<>>, None, <<>>, <<>>, "n/a", Return(Empty, None))
    /\ twin = NoTwin
    /\ SingleThreaded

NextTemp ==
    \/ \E p \in Paths : Create(p)
    \/ \E p \in Paths : Write(p)
    \/ \E p \in Paths, val \in {PyTrue, PyFalse, NotBool} : SetPreserved(p, val)
    \/ \E p \in Paths : GetPreserved(p)
    \/ \E p \in Paths : Finalize(p)
    \/ Cleanup

SpecTemp == InitTemp /\ [][NextTemp]_vars

-----------------------------------------------------------------------------
(* The key protocol as the specification states it (section 3): only the   *)
(* first two characters of a raw key are inspected.                        *)

LeadingUnderscores(key) ==
    IF Len(key) >= 2 /\ key[1] = "_" /\ key[2] = "_" THEN 2
    ELSE IF Len(key) >= 1 /\ key[1] = "_" THEN 1
    ELSE 0
NormalMode(key) == key \in StrKeys /\ LeadingUnderscores(key) = 0
UnderMode(key) == key \in StrKeys /\ LeadingUnderscores(key) > 0
BaseKey(key) == SubSeq(key, LeadingUnderscores(key) + 1, Len(key))
Present(d, k) == k \in dict_keyset(d)
Value(d, k) == d[CHOOSE i \in 1..Len(d) : d[i][1] = k][2]
\* Python's ==: the same type and contents, whichever object it is
Equal(x, y) == x.t = y.t /\ x.v = y.v
\* dict == dict: the same keys with equal values, in any order
EqualDicts(d1, d2) ==
    /\ dict_keyset(d1) = dict_keyset(d2)
    /\ \A k \in dict_keyset(d1) : Equal(Value(d1, k), Value(d2, k))

-----------------------------------------------------------------------------
(* Properties *)

\* C1: in every reachable state the protected keys are keys of the entries:
\* no absent key is protected.
C1_ProtectedSubsetOfEntries == _protected \subseteq dict_keyset(_dict)

\* a protected key has just been deleted through '__key'
C1_Witness ==
    /\ last.op = "del" /\ last.err = NoErr
    /\ last.was = "protected" /\ LeadingUnderscores(last.key) = 2

\* C2: a normal-mode set on a present, protected key fails with ReadOnly and
\* leaves every entry (the one of the key too) and the protected set unchanged.
C2_NormalSetOnProtectedFails ==
    [][(/\ last'.op = "set" /\ NormalMode(last'.key)
        /\ Present(_dict, last'.key) /\ last'.key \in _protected)
       => (last'.err = ReadOnly /\ _dict' = _dict /\ _protected' = _protected)]_vars

\* a normal-mode set of a value other than the stored one has been refused
C2_Witness ==
    /\ last.op = "set" /\ NormalMode(last.key) /\ last.was = "protected"
    /\ last.err = ReadOnly
    /\ Value(_dict, last.key) # _val_copy(last.val)
    /\ Len(_dict) > 1

C4_AfterDblSet_AnyKey ==
    [][(/\ last.op = "set" /\ last.err = NoErr
        /\ Len(last.key) >= 2 /\ last.key[1] = "_" /\ last.key[2] = "_")
       => LET k == Tail(Tail(last.key))
          IN  /\ k \in _protected
              /\ (last'.op = "get" /\ last'.key = k)
                    => (/\ last'.err = NoErr
                        /\ last'.ret = Value(_dict, k)
                        /\ last'.ret = _val_copy(last.val))
              /\ (last'.op = "set" /\ last'.key = k) => last'.err = ReadOnly]_vars

\* C4 amended: the same for every str key k that does not begin with '_'.
C4_AfterDblSet ==
    [][(/\ last.op = "set" /\ last.err = NoErr
        /\ Len(last.key) >= 2 /\ last.key[1] = "_" /\ last.key[2] = "_"
        /\ NormalMode(Tail(Tail(last.key))))
       => LET k == Tail(Tail(last.key))
          IN  /\ k \in _protected
              /\ (last'.op = "get" /\ last'.key = k)
                    => (/\ last'.err = NoErr
                        /\ last'.ret = Value(_dict, k)
                        /\ last'.ret = _val_copy(last.val))
              /\ (last'.op = "set" /\ last'.key = k) => last'.err = ReadOnly]_vars

\* set('__' + k, v) has just been done on a key k without leading underscore
\* that was not protected
C4_Witness ==
    /\ last.op = "set" /\ last.err = NoErr
    /\ LeadingUnderscores(last.key) = 2 /\ NormalMode(BaseKey(last.key))
    /\ last.was = "unprotected"

\* C5 as stated: for every protected key k, whatever its spelling:
\* set('_' + k, v2) succeeds and leaves k unprotected, and a following
\* set(k, v3) succeeds.
C5_UnprotectBySingle_AnyKey ==
    [][/\ \A k \in _protected :
            (last'.op = "set" /\ last'.key = <<"_">> \o k)
                => (last'.err = NoErr /\ k \notin _protected')
       /\ (/\ last.op = "set" /\ last.err = NoErr /\ UnderMode(last.key)
           /\ last'.op = "set" /\ last'.key = Tail(last.key))
             => last'.err = NoErr]_vars

\* C5 amended: the same for every protected key k that does not begin with
\* '_'; the following set(k, v3) is then a normal-mode set.
C5_UnprotectBySingle ==
    [][/\ \A k \in _protected :
            (NormalMode(k) /\ last'.op = "set" /\ last'.key = <<"_">> \o k)
                => (last'.err = NoErr /\ k \notin _protected')
       /\ (/\ last.op = "set" /\ last.err = NoErr /\ UnderMode(last.key)
           /\ NormalMode(Tail(last.key))
           /\ last'.op = "set" /\ last'.key = Tail(last.key))
             => (last'.err = NoErr /\ Value(_dict', last'.key) = _val_copy(last'.val))]_vars

\* a protected key without leading underscore has just been written through
\* one underscore
C5_Witness ==
    /\ last.op = "set" /\ last.err = NoErr
    /\ LeadingUnderscores(last.key) = 1 /\ NormalMode(BaseKey(last.key))
    /\ last.was = "protected"
    /\ BaseKey(last.key) \notin _protected

\* C6: a normal-mode set on an absent key fails with AdditionNotAllowed and
\* changes nothing; a normal-mode set never changes the key set, and succeeds
\* only on a present, unprotected key.
C6_NormalSetNeverAdds ==
    [][(last'.op = "set" /\ NormalMode(last'.key))
       => (/\ ~Present(_dict, last'.key)
                => (/\ last'.err = AdditionNotAllowed
                    /\ _dict' = _dict /\ Len(_dict') = Len(_dict)
                    /\ _protected' = _protected)
           /\ dict_keyset(_dict') = dict_keyset(_dict)
           /\ last'.err = NoErr
                => (Present(_dict, last'.key) /\ last'.key \notin _protected))]_vars

\* a normal-mode set on an absent key of a non-empty mapping has been refused
C6_Witness ==
    /\ last.op = "set" /\ NormalMode(last.key) /\ last.was = "absent"
    /\ last.err = AdditionNotAllowed /\ _dict # <<>>

\* C7: a normal-mode delete of an existing key, protected or not, fails with
\* DeletionNotAllowed and leaves entries and protected set as they were.
C7_NormalDeleteRefused ==
    [][(last'.op = "del" /\ NormalMode(last'.key) /\ Present(_dict, last'.key))
       => (/\ last'.err = DeletionNotAllowed
           /\ _dict' = _dict /\ _protected' = _protected)]_vars

\* a normal-mode delete of an unprotected key has been refused
C7_Witness ==
    /\ last.op = "del" /\ NormalMode(last.key) /\ last.was = "unprotected"
    /\ last.err = DeletionNotAllowed

\* C8 as stated: for any existing key k, delete('_' + k) succeeds and removes
\* k from the entries and the protected set; get(k) then fails with KeyNotFound.
C8_UnderDelete_AnyKey ==
    [][/\ \A k \in dict_keyset(_dict) :
            (last'.op = "del" /\ last'.key = <<"_">> \o k)
                => (/\ last'.err = NoErr
                    /\ ~Present(_dict', k) /\ k \notin _protected')
       /\ (/\ last.op = "del" /\ last.err = NoErr /\ UnderMode(last.key)
           /\ last'.op = "get" /\ last'.key = Tail(last.key))
             => last'.err = KeyNotFound]_vars

\* C8 amended: the same for any existing key k that does not begin with '_'.
C8_UnderDelete ==
    [][/\ \A k \in dict_keyset(_dict) :
            (NormalMode(k) /\ last'.op = "del" /\ last'.key = <<"_">> \o k)
                => (/\ last'.err = NoErr
                    /\ ~Present(_dict', k) /\ k \notin _protected')
       /\ (/\ last.op = "del" /\ last.err = NoErr /\ UnderMode(last.key)
           /\ NormalMode(Tail(last.key))
           /\ last'.op = "get" /\ last'.key = Tail(last.key))
             => last'.err = KeyNotFound]_vars

\* a protected key without leading underscore has just been deleted through
\* one underscore
C8_Witness ==
    /\ last.op = "del" /\ last.err = NoErr
    /\ LeadingUnderscores(last.key) = 1 /\ NormalMode(BaseKey(last.key))
    /\ last.was = "protected"

\* C9: a get, set or delete that raises leaves the entries and the protected
\* set exactly as they were.
C9_FailedCallChangesNothing ==
    [][(last'.op \in {"get", "set", "del"} /\ last'.err # NoErr)
       => (_dict' = _dict /\ _protected' = _protected)]_vars

\* a normal-mode set on a protected key has raised ReadOnly
C9_Witness ==
    /\ last.op = "set" /\ last.err = ReadOnly /\ last.was = "protected"

\* the arguments of the construction in order: the sources, then the overrides
C10_Arguments == [i \in 1..Len(last.args) |-> last.args[i].items] \o <<last.kwargs>>
C10_Gives(items, k) == \E j \in 1..Len(items) : BaseKey(items[j][1]) = k
C10_Given(items, k) == items[CHOOSE j \in 1..Len(items) : BaseKey(items[j][1]) = k][2]
C10_Latest(k) ==
    CHOOSE i \in 1..Len(C10_Arguments) :
        /\ C10_Gives(C10_Arguments[i], k)
        /\ \A j \in (i + 1)..Len(C10_Arguments) : ~C10_Gives(C10_Arguments[j], k)

\* C10: after a construction, the entry of every base key that the arguments
\* supply (in any raw form k, _k, __k) holds the value given by the latest
\* argument that supplies it; the overrides come last.
C10_LatestArgumentWins ==
    (last.op = "init" /\ last.err = NoErr)
        => \A k \in dict_keyset(_dict) :
              Value(_dict, k) = _val_copy(C10_Given(C10_Arguments[C10_Latest(k)], k))

\* C11: x.copy() never fails and gives an instance that answers dict() as x
\* does (the same exception, or equal plain dicts) and has the same
\* protected keys.
C11_CopyRoundTrip ==
    [][(last'.op = "copy")
       => (/\ last'.err = NoErr
           /\ dict(Self').err = dict(Self).err
           /\ dict(Self).err = NoErr => EqualDicts(dict(Self').ret.v, dict(Self).ret.v)
           /\ EqualDicts(_dict', _dict)
           /\ _protected' = _protected)]_vars

\* a copy has been taken of an instance with a protected and an unprotected
\* entry, one of them a list, on which dict() works
C11_Witness ==
    /\ last.op = "copy" /\ last.err = NoErr
    /\ _protected # {} /\ dict_keyset(_dict) \ _protected # {}
    /\ \E k \in dict_keyset(_dict) : Value(_dict, k).t = "list"
    /\ dict(Self).err = NoErr

\* C12: every successful set stores the result of the value's callable
\* copy() or else the value itself: the stored value always equals the value
\* given, also when its 'copy' attribute is not callable (construction stores
\* through the same _val_copy).
C12_StoresCopyOrValue ==
    [][(last'.op = "set" /\ last'.err = NoErr)
       => Equal(Value(_dict', BaseKey(last'.key)), last'.val)]_vars

\* C13: for every key k without a leading underscore and every value v,
\* ROdict({k: v}) followed by x[k] returns a value equal to v.
C13_ConstructThenGet ==
    [][(/\ last.op = "init" /\ last.err = NoErr /\ last.kwargs = <<>>
        /\ Len(last.args) = 1 /\ Len(last.args[1].items) = 1
        /\ NormalMode(last.args[1].items[1][1])
        /\ last'.op = "get" /\ last'.key = last.args[1].items[1][1])
       => (last'.err = NoErr /\ Equal(last'.ret, last.args[1].items[1][2]))]_vars

\* C14: a list stored by construction or by a successful set is never the
\* caller's own object, and a later change of the caller's list in place
\* leaves every entry as it was stored.
C14_CopyIsolationAtInsertion ==
    /\ [](\A i \in 1..Len(_dict) : _dict[i][2].id # CallerObj)
    /\ [][(last'.op = "mutate" /\ last'.was = "arg") => _dict' = _dict]_vars

\* the caller has changed the list it had just stored by a set, and the
\* entry still holds the contents as they were given
C14_Witness ==
    /\ last.op = "mutate" /\ last.was = "arg"
    /\ last.key \in StrKeys /\ Present(_dict, BaseKey(last.key))
    /\ Value(_dict, BaseKey(last.key)).t = "list"
    /\ Value(_dict, BaseKey(last.key)).v # last.val.v

\* C15: a normal-mode get of a list returns a new copy: a change of the
\* returned list in place changes no entry.  An under-mode get returns the
\* stored list itself: a change of the returned list in place changes the
\* entry of its base key (and nothing else), and a later get of that key
\* returns the changed contents.
C15_GetCopiesOnlyInNormalMode ==
    /\ [][(/\ last.op = "get" /\ NormalMode(last.key)
           /\ last'.op = "mutate" /\ last'.was = "ret")
          => _dict' = _dict]_vars
    /\ [][(/\ last.op = "get" /\ UnderMode(last.key)
           /\ last'.op = "mutate" /\ last'.was = "ret")
          => (/\ Equal(Value(_dict', BaseKey(last.key)), last'.val)
              /\ ~Equal(Value(_dict', BaseKey(last.key)), Value(_dict, BaseKey(last.key)))
              /\ \A k \in dict_keyset(_dict) \ {BaseKey(last.key)} :
                    Value(_dict', k) = Value(_dict, k))]_vars
    /\ [][(/\ last.op = "mutate" /\ last.was = "ret" /\ UnderMode(last.key)
           /\ last'.op = "get" /\ last'.key \in StrKeys
           /\ BaseKey(last'.key) = BaseKey(last.key))
          => (last'.err = NoErr /\ Equal(last'.ret, last.val))]_vars

\* a list returned by an under-mode get has been changed in place
C15_Witness ==
    /\ last.op = "mutate" /\ last.was = "ret" /\ UnderMode(last.key)
    /\ Equal(Value(_dict, BaseKey(last.key)), last.val)
    /\ Len(_dict) > 1

\* C16: x.dict() succeeds on every reachable instance; the keys of the
\* plain dict are exactly the base keys, each with the value a normal-mode
\* read of that entry gives (a copy of the stored value), also when a base
\* key itself begins with an underscore.
C16_DictOfEveryInstance ==
    [][(last'.op = "dict")
       => (/\ last'.err = NoErr
           /\ dict_keyset(last'.ret.v) = dict_keyset(_dict)
           /\ \A k \in dict_keyset(_dict) :
                 Equal(Value(last'.ret.v, k), _val_copy(Value(_dict, k))))]_vars

\* the sources of a construction as the caller sees them
HasNonMapping(args) == \E i \in 1..Len(args) : args[i].kind \notin {"dict", "ROdict"}
HasNonStrKey(args, kwargs) ==
    \/ \E i \in 1..Len(args) : \E j \in 1..Len(args[i].items) : args[i].items[j][1] \notin StrKeys
    \/ \E j \in 1..Len(kwargs) : kwargs[j][1] \notin StrKeys

\* C17: a construction with a source that is no mapping fails with TypeKind,
\* one with a non-string raw key in its merged input fails with WrongKeyType;
\* a failed construction produces no instance, and an ROdict passed as a
\* source is left unchanged (also when the construction succeeds).
C17_ConstructionAllOrNothing ==
    /\ [](last.op \in {"init", "new"}
          => (/\ HasNonMapping(last.args) => last.err = TypeKind
              /\ (~HasNonMapping(last.args) /\ HasNonStrKey(last.args, last.kwargs))
                    => last.err = WrongKeyType
              /\ (last.op = "init" /\ last.err # NoErr)
                    => (~constructed /\ _dict = <<>> /\ _protected = {})
              /\ (last.op = "new" /\ last.err # NoErr) => last.ret = None))
    /\ [][(last'.op = "new") => (_dict' = _dict /\ _protected' = _protected)]_vars

\* a construction from an instance with entries and a dict with a non-string
\* key has failed
C17_Witness ==
    /\ last.op = "new" /\ last.err = WrongKeyType
    /\ _protected # {} /\ Len(_dict) > 1
    /\ last.args[1] = AsArg(Self)

\* C18: when every call runs under one exclusive lock, no state is reached
\* in which a key is protected but has no entry, although an under-mode set
\* and an under-mode delete each update the entries and the protected set in
\* two separate steps.  (Without the lock such a state is reached.)
C18_LockedCallsKeepInvariant == locking => _protected \subseteq dict_keyset(_dict)

\* without a lock, both calls have returned and the key is protected but has
\* no entry
C18_Witness ==
    /\ ~locking /\ \A t \in Threads : pc[t] = Idle
    /\ \E k \in _protected : ~Present(_dict, k)

\* C19: t.preserved = True turns the automatic removal off: the property
\* reads True (it reads what was last assigned), and neither __del__ nor
\* TempfilePath.cleanup() removes the file of a preserved object;
\* t.preserved = False turns the removal on again.
C19_PreservedTurnsOffRemoval ==
    /\ [](tlast.op = "get_preserved" => tlast.ret = objs[tlast.path].asked)
    /\ [][\A p \in Paths :
            (/\ objs[p].alive /\ objs[p].asked /\ p \in disk
             /\ tlast'.op \in {"del", "cleanup"})
            => p \in disk']_vars
    /\ [][\A p \in Paths :
            (/\ objs[p].alive /\ ~objs[p].asked /\ p \in disk
             /\ \/ tlast'.op = "cleanup"
                \/ tlast'.op = "del" /\ tlast'.path = p)
            => p \notin disk']_vars

\* C20: in every step, a key that has an entry before and after changes
\* between protected and unprotected only if the step is an under-mode set
\* on that key: normal-mode sets, gets, failing deletes and calls on other
\* keys leave it as it is; and a successful normal-mode update finds and
\* leaves its key unprotected.
C20_FlagChangesOnlyByUnderSet ==
    /\ [][\A k \in dict_keyset(_dict) \cap dict_keyset(_dict') :
            ((k \in _protected) # (k \in _protected'))
            => (last'.op = "set" /\ UnderMode(last'.key) /\ BaseKey(last'.key) = k)]_vars
    /\ [][(last'.op = "set" /\ NormalMode(last'.key) /\ last'.err = NoErr)
          => (last'.key \notin _protected /\ last'.key \notin _protected')]_vars

\* a single-underscore set has just unprotected its key, next to another
\* protected key
C20_Witness ==
    /\ last.op = "set" /\ LeadingUnderscores(last.key) = 1
    /\ last.was = "protected" /\ BaseKey(last.key) \notin _protected
    /\ _protected # {}

\* C21: a key leaves the entries only in a step that is a successful
\* under-mode delete of it, and enters them only in a step that is an
\* under-mode set of it (absent before); a normal-mode get, set or delete
\* leaves the key set as it is.
C21_KeySetChangesOnlyInUnderMode ==
    [][/\ \A k \in dict_keyset(_dict) \ dict_keyset(_dict') :
            /\ last'.op = "del" /\ last'.err = NoErr
            /\ UnderMode(last'.key) /\ BaseKey(last'.key) = k
       /\ \A k \in dict_keyset(_dict') \ dict_keyset(_dict) :
            /\ last'.op = "set" /\ UnderMode(last'.key) /\ BaseKey(last'.key) = k
       /\ (last'.op \in {"get", "set", "del"} /\ NormalMode(last'.key))
            => dict_keyset(_dict') = dict_keyset(_dict)]_vars

\* an under-mode set has just added a key to other entries
C21_Witness ==
    /\ last.op = "set" /\ UnderMode(last.key) /\ last.was = "absent"
    /\ Present(_dict, BaseKey(last.key)) /\ Len(_dict) > 1

\* the merged input of a construction, in the order it is inserted
MergedInput(args, kwargs) == dict_update(init_merge(<<>>, args).d, kwargs)
\* the instance under construction before the i-th item is inserted
BeforeInsertion(items, i) == init_insert(Empty, SubSeq(items, 1, i - 1)).self

\* C22: during a construction every insertion through the normal path
\* succeeds and finds its key not yet present: it never overwrites an entry
\* that an earlier '__' raw key of the same input has created as protected.
C22_NormalInsertionFindsKeyAbsent ==
    (last.op = "init" /\ last.err = NoErr)
    => LET items == MergedInput(last.args, last.kwargs)
       IN  \A i \in 1..Len(items) :
             NormalMode(items[i][1])
             => /\ ~Present(BeforeInsertion(items, i)._dict, items[i][1])
                /\ _item_add_new_as_normal(BeforeInsertion(items, i),
                                            items[i][1], items[i][2], TRUE).err = NoErr

\* the number of underscores a raw key begins with
UnderscoreRun(key) ==
    CHOOSE n \in 0..Len(key) :
        /\ \A i \in 1..n : key[i] = "_"
        /\ n < Len(key) => key[n + 1] # "_"

\* C23: the parse of a raw str key looks at its first two characters only:
\* no leading underscore gives normal mode and the key itself; exactly one
\* gives under mode, dbl false and the key without its first character; two
\* or more give under mode, dbl true and the key without its first two
\* characters, further underscores staying in the base key.
C23_KeyParsing ==
    (last.op \in {"get", "set", "del"} /\ last.key \in StrKeys)
    => LET n == UnderscoreRun(last.key)
           testres == _test_under(last.key)
       IN  /\ testres.err = NoErr
           /\ n = 0 => (~testres.under /\ testres.key = last.key)
           /\ n = 1 => (/\ testres.under /\ ~testres.dbl
                        /\ testres.key = SubSeq(last.key, 2, Len(last.key)))
           /\ n >= 2 => (/\ testres.under /\ testres.dbl
                         /\ testres.key = SubSeq(last.key, 3, Len(last.key)))

\* x['___a'] = v has made the protected entry '_a'
C23_Witness ==
    /\ last.op = "set" /\ last.key = <<"_", "_", "_", "a">> /\ last.err = NoErr
    /\ Present(_dict, <<"_", "a">>) /\ <<"_", "a">> \in _protected
    /\ last.was = "absent"

\* C24: a get or a delete whose base key is absent fails with KeyNotFound
\* in every mode (the under-mode call raises what the normal-mode call on a
\* missing key raises), and leaves the entries and the protected set
\* unchanged.
C24_MissingKeyInEveryMode ==
    [][(/\ last'.op \in {"get", "del"} /\ last'.key \in StrKeys
        /\ ~Present(_dict, BaseKey(last'.key)))
       => (/\ last'.err = KeyNotFound
           /\ _dict' = _dict /\ _protected' = _protected)]_vars

\* an under-mode delete of a missing key has been refused, other entries
\* being there
C24_Witness ==
    /\ last.op = "del" /\ UnderMode(last.key) /\ last.was = "absent"
    /\ last.err = KeyNotFound /\ _dict # <<>>

\* the base keys of the entries, oldest insertion first
InsertionOrder(d) == [i \in 1..Len(d) |-> d[i][1]]
\* a sequence without the repetitions of an element after its first occurrence
RECURSIVE FirstOccurrences(_)
FirstOccurrences(seq) ==
    IF seq = <<>> THEN <<>>
    ELSE <<Head(seq)>> \o FirstOccurrences(SelectSeq(Tail(seq), LAMBDA e : e # Head(seq)))

\* C25: len() is the number of entries and iteration yields every present
\* base key exactly once, in insertion order: a construction orders the keys
\* by their first insertion, a successful write to a present key (any mode,
\* also when it changes the protection) keeps the order, a write that creates
\* a key puts it last (so a key deleted and created again ends up last), a
\* delete removes its key only, and a failed call changes nothing.
C25_LengthAndIterationOrder ==
    /\ [](constructed =>
            /\ __len__(Self) = Cardinality(dict_keyset(_dict))
            /\ Len(__iter__(Self)) = Cardinality(dict_keyset(_dict))
            /\ __iter__(Self) = InsertionOrder(_dict)
            /\ (last.op = "len" => last.ret.v = Cardinality(dict_keyset(_dict)))
            /\ (last.op = "iter" => last.ret.v = InsertionOrder(_dict))
            /\ (last.op = "init" =>
                  InsertionOrder(_dict) =
                    FirstOccurrences([i \in 1..Len(MergedInput(last.args, last.kwargs)) |->
                                        BaseKey(MergedInput(last.args, last.kwargs)[i][1])])))
    /\ [][
          /\ (last'.op = "set" /\ last'.err = NoErr) =>
                IF Present(_dict, BaseKey(last'.key))
                THEN InsertionOrder(_dict') = InsertionOrder(_dict)
                ELSE InsertionOrder(_dict') = Append(InsertionOrder(_dict), BaseKey(last'.key))
          /\ (last'.op = "del" /\ last'.err = NoErr) =>
                InsertionOrder(_dict') =
                  SelectSeq(InsertionOrder(_dict), LAMBDA k : k # BaseKey(last'.key))
          /\ (last'.op \in {"set", "del"} /\ last'.err # NoErr) =>
                InsertionOrder(_dict') = InsertionOrder(_dict)
       ]_vars

\* an under-mode write has just created a key behind older entries
C25_Witness ==
    /\ last.op = "set" /\ UnderMode(last.key) /\ last.was = "absent" /\ last.err = NoErr
    /\ Len(_dict) > 1 /\ _dict[Len(_dict)][1] = BaseKey(last.key)
    /\ __len__(Self) = Len(_dict)

\* the keys of a group, in insertion order
Group(keys) == SelectSeq(InsertionOrder(_dict), LAMBDA k : k \in keys)
\* the keys as the rendering lists them
Listed == Group(_protected) \o Group(dict_keyset(_dict) \ _protected)
\* the rendering of one entry
Rendered(k) ==
    k \o (IF k \in _protected THEN <<"*">> ELSE <<>>) \o <<": ", format(Value(_dict, k))>>

\* C26: the string of an instance is 'ROdict {...}' listing every entry once:
\* first the protected keys, each followed by '*', then the unprotected keys
\* without it, the entries of each group in insertion order.
C26_RenderGroupsProtectedFirst ==
    (constructed /\ last.op = "str") =>
        /\ Len(Listed) = Len(_dict)
        /\ \A k \in dict_keyset(_dict) : \E i \in 1..Len(Listed) : Listed[i] = k
        /\ last.ret.v = <<"ROdict", " {">>
                         \o join(", ", [i \in 1..Len(Listed) |-> Rendered(Listed[i])])
                         \o <<"}">>

\* a rendered instance whose insertion order has an unprotected key before a
\* protected one
C26_Witness ==
    /\ last.op = "str"
    /\ \E i, j \in 1..Len(_dict) :
         i < j /\ _dict[i][1] \notin _protected /\ _dict[j][1] \in _protected

\* the raw key has three or more leading underscores and parses to k
CreatedThrough(raw, k) == UnderscoreRun(raw) >= 3 /\ BaseKey(raw) = k

\* C27: every base key of the entries that begins with an underscore is
\* protected. Such a key comes into the entries only through a raw key with
\* three or more leading underscores (an item of the construction input or
\* the raw key of a set), and a call whose raw key parses to a base key
\* beginning with an underscore is never in single-underscore mode.
C27_UnderscoreBaseKeysAreProtected ==
    /\ [](\A k \in dict_keyset(_dict) : startswith_(k) => k \in _protected)
    /\ []((constructed /\ last.op = "init") =>
            \A k \in dict_keyset(_dict) :
               startswith_(k) =>
                 \E i \in 1..Len(MergedInput(last.args, last.kwargs)) :
                    CreatedThrough(MergedInput(last.args, last.kwargs)[i][1], k))
    /\ []((last.op \in {"get", "set", "del"} /\ last.key \in StrKeys
            /\ startswith_(_test_under(last.key).key))
           => _test_under(last.key).dbl)
    /\ [][\A k \in dict_keyset(_dict') \ dict_keyset(_dict) :
             startswith_(k) => (last'.op = "set" /\ CreatedThrough(last'.key, k))
          ]_vars

\* with the entry '_a' present, x['_a'] = v has acted on the key 'a'
C27_Witness ==
    /\ Present(_dict, <<"_", "a">>) /\ <<"_", "a">> \in _protected
    /\ last.op = "set" /\ last.key = <<"_", "a">> /\ last.err = NoErr
    /\ Present(_dict, <<"a">>) /\ Equal(Value(_dict, <<"a">>), _val_copy(last.val))

\* C28: an instance made by copy(), or constructed with another ROdict among
\* its sources, shares no key-level state with it: a set or a delete on one of
\* the two, successful or not, leaves the entries and the protected set of
\* the other as they were.
C28_InstancesShareNoKeyState ==
    [][/\ (twin # NoTwin /\ last'.op \in {"set", "del"})
            => (twin'._dict = twin._dict /\ twin'._protected = twin._protected)
       /\ last'.op \in {"twin_set", "twin_del"}
            => (_dict' = _dict /\ _protected' = _protected)
      ]_vars

\* a successful write to x while the second instance exists has left the two
\* with different entries
C28_Witness ==
    /\ twin # NoTwin
    /\ last.op \in {"set", "del"} /\ last.err = NoErr
    /\ twin._dict # <<>>
    /\ dict_keyset(twin._dict) # dict_keyset(_dict)

\* C29: the copy of an instance iterates over the same keys in the same
\* order as the instance, also when protected and unprotected keys are
\* interleaved in its insertion order.
C29_CopyPreservesIterationOrder ==
    (constructed /\ last.op = "copy_of" /\ last.err = NoErr)
        => __iter__(last.ret.v) = __iter__(Self)

\* C30: the observing calls (get in any mode, rokeys, len, iteration, str,
\* dict and copy) leave the instance as it was, whether they succeed or
\* fail: the same entries (keys, stored values, order) and the same
\* protected set.
C30_ObserversChangeNothing ==
    [][last'.op \in {"get", "rokeys", "len", "iter", "str", "dict", "copy_of"}
         => (_dict' = _dict /\ _protected' = _protected)]_vars

\* an under-mode get has just returned the value of a protected entry
C30_Witness ==
    /\ last.op = "get" /\ UnderMode(last.key) /\ last.err = NoErr
    /\ last.was = "protected" /\ BaseKey(last.key) \in _protected
    /\ Equal(last.ret, Value(_dict, BaseKey(last.key)))

====
